---- MODULE Spec2Model ----
(* Model of the parcel scraper: the bounded-concurrency batch download of    *)
(* the two sources (download_inspire_parcels, download_rgg_parcels), the     *)
(* merge (normalize_and_merge) and main, for both copies of the script       *)
(* (src/scraper.py and src/src/portugal_parcels/scraper.py).                 *)
EXTENDS Integers, Sequences, FiniteSets, TLC

\* ---------------------------------------------------------------- bounds
MaxPasses == 2          \* runs of main over the same artifact directory
MaxRunBatches == 2      \* batches of both sources together, in Spec
MaxConcBatches == 6     \* batches of the large source, in SpecConc
MaxPlanTotal == 4001    \* largest RGG total, in SpecPlan
MaxNameBatch == 10001   \* largest batch number, in SpecNames
MaxMergeRows == 3       \* records of a one-batch source, in SpecMerge
MaxMergeBatches == 3    \* batches of both sources together, in SpecMerge

\* ------------------------------------------------------ program constants
MAX_CONCURRENT == 5
InspireBatchSize == 50000
RggBatchSize == 2000

Sources == <<"inspire", "rgg">>
SourceSet == {"inspire", "rgg"}
Scripts == {"pkg", "root"}

batch_size(s) == IF s = "inspire" THEN InspireBatchSize ELSE RggBatchSize

NumBatches(tot, bs) == (tot + bs - 1) \div bs

ParamsTruncated(s, b, tot) ==
    [offset |-> (b - 1) * batch_size(s),
     count  |-> IF b * batch_size(s) > tot
                THEN tot - (b - 1) * batch_size(s) ELSE batch_size(s)]
BatchParams(s, b, tot) ==
    [offset |-> (b - 1) * batch_size(s), count |-> batch_size(s)]

\* ------------------------------------------------------------ file contents
\* Content of an artifact path: no file, a file that was opened for writing
\* and not completely written, or a page as the service returned it.
NoFile == [kind |-> "absent", offset |-> 0, n |-> 0]
Truncated == [kind |-> "truncated", offset |-> 0, n |-> 0]

Minimum(a, b) == IF a < b THEN a ELSE b

\* ------------------------------------------------------------- file names
\* Strings are sequences of character codes.
Zero == 48
NameWidth == 4
Suffix == <<46, 103, 101, 111, 106, 115, 111, 110>>    \* ".geojson"

RECURSIVE Digits(_)
\* str(n) of a natural number: its decimal digits.
Digits(n) ==
    IF n < 10 THEN <<Zero + n>>
    ELSE Digits(n \div 10) \o <<Zero + (n % 10)>>

RECURSIVE ZeroPad(_, _)
\* The format width with zero fill: zeros in front up to w characters, and
\* nothing cut off a longer number.
ZeroPad(ds, w) == IF Len(ds) >= w THEN ds ELSE ZeroPad(<<Zero>> \o ds, w)

\* f"{batch_num:04d}.geojson"
FileName(b) == ZeroPad(Digits(b), NameWidth) \o Suffix

RECURSIVE LexLess(_, _)
\* Order of two strings as sorted() compares them: by the first character
\* that differs, a proper prefix first.
LexLess(a, b) ==
    IF b = <<>> THEN FALSE
    ELSE IF a = <<>> THEN TRUE
    ELSE IF a[1] # b[1] THEN a[1] < b[1]
    ELSE LexLess(Tail(a), Tail(b))

RECURSIVE NameOrder(_)
\* sorted(glob("*.geojson")) over the artifacts of the batches in S: the
\* batch numbers in the order of their file names.
NameOrder(S) ==
    IF S = {} THEN <<>>
    ELSE LET first == CHOOSE b \in S :
                         \A c \in S \ {b} : LexLess(FileName(b), FileName(c))
         IN <<first>> \o NameOrder(S \ {first})

\* The page the remote service returns for a request: the records
\* offset .. offset+n-1 of a data set of tot records.
Page(tot, params) ==
    [kind |-> "page", offset |-> params.offset,
     n |-> Minimum(params.count,
                   IF tot > params.offset THEN tot - params.offset ELSE 0)]

VARIABLES
    script,       \* which copy of the scraper runs
    remoteTotal,  \* records held by the remote service of each source
    idField,      \* how the records of each source carry their identifier
    glob,         \* a directory listing and what sorted(glob) makes of it
    pass,         \* number of the current run of main
    pc,           \* position of main
    cur,          \* source whose fetch routine is running
    countResp,    \* kind of count response each fetch received
    total,        \* local "total" of each fetch routine
    sem,          \* value of each fetch routine's semaphore
    task,         \* state of each download_batch task
    reqs,         \* page requests issued by each task (their params)
    pre,          \* batches whose artifact existed when the fetch was invoked
    files,        \* artifact directory of each source: batch -> content
    out,          \* OUTPUT_FILE
    cause         \* where the exception that ended main was raised

vars == <<script, remoteTotal, idField, glob, pass, pc, cur, countResp, total, sem, task,
          reqs, pre, files, out, cause>>

Holding(s) ==
    {b \in DOMAIN task[s] : task[s][b] \in {"requesting", "reading", "writing"}}
InFlight(s) ==
    {b \in DOMAIN task[s] : task[s][b] \in {"requesting", "reading"}}
Terminal(s) ==
    {b \in DOMAIN task[s] : task[s][b] \in {"true", "false"}}
NoWriter == \A s \in SourceSet : \A b \in DOMAIN task[s] : task[s][b] # "writing"

Existing(s) == {b \in DOMAIN files[s] : files[s][b] # NoFile}

\* ------------------------------------------------------------------- Init
InitWith(totals) ==
    /\ script \in Scripts
    /\ remoteTotal \in totals
    /\ glob = [dir |-> {}, sorted |-> <<>>]
    /\ pass = 1
    /\ pc = "start"
    /\ cur = "inspire"
    /\ countResp = [s \in SourceSet |-> "none"]
    /\ total = [s \in SourceSet |-> 0]
    /\ sem = [s \in SourceSet |-> MAX_CONCURRENT]
    /\ task = [s \in SourceSet |-> <<>>]
    /\ reqs = [s \in SourceSet |-> <<>>]
    /\ pre = [s \in SourceSet |-> {}]
    /\ files = [s \in SourceSet |->
                 [b \in 1..NumBatches(remoteTotal[s], batch_size(s)) |-> NoFile]]
    /\ out = [written |-> FALSE, partial |-> FALSE, features |-> <<>>]
    /\ cause = "none"

HalfTotals(s, m) == {(k * batch_size(s)) \div 2 : k \in 0..(2 * m)}

RunTotals ==
    {t \in [SourceSet -> HalfTotals("inspire", MaxRunBatches)
                         \cup HalfTotals("rgg", MaxRunBatches)] :
        /\ t["inspire"] \in HalfTotals("inspire", MaxRunBatches)
        /\ t["rgg"] \in HalfTotals("rgg", MaxRunBatches)
        /\ NumBatches(t["inspire"], InspireBatchSize)
             + NumBatches(t["rgg"], RggBatchSize) <= MaxRunBatches}

ConcTotals ==
    {[inspire |-> MaxConcBatches * InspireBatchSize, rgg |-> 0],
     [inspire |-> 0, rgg |-> MaxConcBatches * RggBatchSize]}

InspirePlanTotals ==
    UNION {{k * InspireBatchSize, k * InspireBatchSize + 1,
            k * InspireBatchSize + InspireBatchSize \div 2,
            (k + 1) * InspireBatchSize - 1} : k \in 0..2}
PlanTotals ==
    {[inspire |-> t, rgg |-> 0] : t \in InspirePlanTotals}
    \cup {[inspire |-> 0, rgg |-> t] : t \in 0..MaxPlanTotal}

IdFields == {"present", "nulls", "absent"}
AllPresent == [s \in SourceSet |-> "present"]

Init == InitWith(RunTotals) /\ idField = AllPresent
InitConc == InitWith(ConcTotals) /\ script = "pkg" /\ idField = AllPresent
InitPlan == InitWith(PlanTotals) /\ script = "pkg" /\ idField = AllPresent

InitLive == InitConc /\ remoteTotal["rgg"] = 0

\* Remote data sets for the merge: a few records, or one record more than
\* a whole number of batches.
MergeRowCounts(s) ==
    (0..MaxMergeRows)
    \cup {k * batch_size(s) + 1 : k \in 1..(MaxMergeBatches - 2)}
MergeTotals ==
    {t \in [SourceSet -> MergeRowCounts("inspire") \cup MergeRowCounts("rgg")] :
        /\ t["inspire"] \in MergeRowCounts("inspire")
        /\ t["rgg"] \in MergeRowCounts("rgg")
        /\ NumBatches(t["inspire"], InspireBatchSize)
             + NumBatches(t["rgg"], RggBatchSize) <= MaxMergeBatches}
InitMerge ==
    /\ InitWith(MergeTotals)
    /\ script = "pkg"
    /\ idField \in [SourceSet -> IdFields]

\* Batch numbers around every change of the number of digits.
NameBatches ==
    (1..12) \cup (98..101) \cup (998..1001) \cup (9998..MaxNameBatch)
InitNames ==
    /\ script = "pkg"
    /\ remoteTotal = [s \in SourceSet |-> 0]
    /\ idField = AllPresent
    /\ \E i, j \in NameBatches :
          i < j /\ glob = [dir |-> {i, j}, sorted |-> <<>>]
    /\ pass = 1
    /\ pc = "merge"
    /\ cur = "rgg"
    /\ countResp = [s \in SourceSet |-> "none"]
    /\ total = [s \in SourceSet |-> 0]
    /\ sem = [s \in SourceSet |-> MAX_CONCURRENT]
    /\ task = [s \in SourceSet |-> <<>>]
    /\ reqs = [s \in SourceSet |-> <<>>]
    /\ pre = [s \in SourceSet |-> {}]
    /\ files = [s \in SourceSet |-> <<>>]
    /\ out = [written |-> FALSE, partial |-> FALSE, features |-> <<>>]
    /\ cause = "none"

\* ------------------------------------------------------------------- main
\* main up to the count request of download_inspire_parcels.
MainStart ==
    /\ pc = "start"
    /\ pc' = "count"
    /\ cur' = "inspire"
    /\ pre' = [pre EXCEPT !["inspire"] = Existing("inspire")]
    /\ UNCHANGED <<script, remoteTotal, idField, glob, pass, countResp, total, sem, task,
                   reqs, files, out, cause>>

CountKinds == {"ok", "nocount", "malformed", "error"}

ParseCountDefaultBatch(s, kind, tot) ==
    IF kind = "ok" THEN tot
    ELSE IF kind = "nocount" THEN batch_size(s)
    ELSE -1
\* The total the fetch routine takes from a count response; -1 stands for
\* the exception the parse raises.
ParseCount(s, kind, tot) ==
    IF kind = "ok" THEN tot
    ELSE IF kind = "nocount" THEN 0
    ELSE -1

\* The count response arrives; the routine computes num_batches, creates the
\* semaphore and the download_batch tasks and awaits gather.
CountResponse(s) ==
    /\ pc = "count" /\ cur = s
    /\ \E kind \in CountKinds :
         LET t == ParseCount(s, kind, remoteTotal[s])
             n == NumBatches(t, batch_size(s))
         IN /\ countResp' = [countResp EXCEPT ![s] = kind]
            /\ IF t < 0
               THEN /\ pc' = "raised"
                    /\ cause' = "count"
                    /\ UNCHANGED <<total, sem, task, reqs>>
               ELSE /\ pc' = "gather"
                    /\ total' = [total EXCEPT ![s] = t]
                    /\ sem' = [sem EXCEPT ![s] = MAX_CONCURRENT]
                    /\ task' = [task EXCEPT ![s] = [b \in 1..n |-> "pending"]]
                    /\ reqs' = [reqs EXCEPT ![s] = [b \in 1..n |-> <<>>]]
                    /\ UNCHANGED cause
    /\ UNCHANGED <<script, remoteTotal, idField, glob, pass, cur, pre, files, out>>

\* --------------------------------------------------------- download_batch
SemFreeUnbounded(v) == TRUE
\* "async with semaphore" lets a task in only while the value is positive.
SemFree(v) == v > 0

SkipsExistingNever(sc, content) == FALSE
\* The artifact-existence check at the head of download_batch; only the
\* packaged copy has it.
SkipsExisting(sc, content) == sc = "pkg" /\ content # NoFile

ExceptionKinds == {"request_error", "parse_error", "open_error", "dump_error"}
CaughtClientOnly(e) == e = "request_error"
\* "except Exception" in download_batch: every failure of the request, of
\* the parse and of the write is an Exception.
Caught(e) == e \in ExceptionKinds

ReturnKeepSlot(s, b, r) ==
    /\ task' = [task EXCEPT ![s][b] = r]
    /\ sem' = [sem EXCEPT ![s] = IF r = "false" THEN @ ELSE @ + 1]
    /\ UNCHANGED <<pc, cause>>
\* Return of download_batch with the value r: the task ends and
\* "async with semaphore" releases.
Return(s, b, r) ==
    /\ task' = [task EXCEPT ![s][b] = r]
    /\ sem' = [sem EXCEPT ![s] = @ + 1]
    /\ UNCHANGED <<pc, cause>>

RaiseRetry(s, b, e) ==
    /\ task' = [task EXCEPT ![s][b] = "pending"]
    /\ sem' = [sem EXCEPT ![s] = @ + 1]
    /\ UNCHANGED <<pc, cause>>
\* An exception e inside the try block: logged and False returned when the
\* handler catches it, else it leaves the task and gather re-raises it in
\* the fetch routine and in main.
Raise(s, b, e) ==
    IF Caught(e)
    THEN Return(s, b, "false")
    ELSE /\ pc' = "raised"
         /\ cause' = "batch"
         /\ UNCHANGED <<task, sem>>

\* A task enters the semaphore, checks its artifact and either returns True
\* at once or issues its page request.  gather starts the tasks in the order
\* of the list and the semaphore wakes its waiters first-in first-out, so
\* the tasks enter in the order of their batch numbers.
StartBatch(s, b) ==
    /\ pc = "gather" /\ cur = s /\ NoWriter
    /\ b \in DOMAIN task[s] /\ task[s][b] = "pending"
    /\ \A c \in 1..(b - 1) : task[s][c] # "pending"
    /\ SemFree(sem[s])
    /\ IF SkipsExisting(script, files[s][b])
       THEN /\ task' = [task EXCEPT ![s][b] = "true"]
            /\ UNCHANGED <<sem, reqs>>
       ELSE /\ task' = [task EXCEPT ![s][b] = "requesting"]
            /\ sem' = [sem EXCEPT ![s] = @ - 1]
            /\ reqs' = [reqs EXCEPT ![s][b] =
                           Append(@, BatchParams(s, b, total[s]))]
    /\ UNCHANGED <<script, remoteTotal, idField, glob, pass, pc, cur, countResp, total, pre,
                   files, out, cause>>

\* session.get answers: status 200, another status, or an exception
\* (connection error, timeout).
Response(s, b) ==
    /\ pc = "gather" /\ cur = s /\ NoWriter
    /\ b \in DOMAIN task[s] /\ task[s][b] = "requesting"
    /\ \E r \in {"200", "non200", "request_error"} :
         CASE r = "200" ->
                /\ task' = [task EXCEPT ![s][b] = "reading"]
                /\ UNCHANGED <<sem, pc, cause>>
           [] r = "non200" -> Return(s, b, "false")
           [] OTHER -> Raise(s, b, r)
    /\ UNCHANGED <<script, remoteTotal, idField, glob, pass, cur, countResp, total, reqs,
                   pre, files, out>>

\* resp.json() ends: the body fails to arrive or to parse, or it parses and
\* the task opens the artifact file for writing, which creates or truncates
\* it.
Body(s, b) ==
    /\ pc = "gather" /\ cur = s /\ NoWriter
    /\ b \in DOMAIN task[s] /\ task[s][b] = "reading"
    /\ \E r \in {"opened", "parse_error", "open_error"} :
         IF r = "opened"
         THEN /\ task' = [task EXCEPT ![s][b] = "writing"]
              /\ files' = [files EXCEPT ![s][b] = Truncated]
              /\ UNCHANGED <<sem, pc, cause>>
         ELSE /\ Raise(s, b, r)
              /\ UNCHANGED files
    /\ UNCHANGED <<script, remoteTotal, idField, glob, pass, cur, countResp, total, reqs,
                   pre, out>>

\* json.dump writes the body into the open file, or fails part-way.
Dump(s, b) ==
    /\ pc = "gather" /\ cur = s
    /\ b \in DOMAIN task[s] /\ task[s][b] = "writing"
    /\ \E r \in {"written", "dump_error"} :
         IF r = "written"
         THEN /\ files' = [files EXCEPT ![s][b] =
                              Page(remoteTotal[s], reqs[s][b][Len(reqs[s][b])])]
              /\ Return(s, b, "true")
         ELSE /\ Raise(s, b, r)
              /\ UNCHANGED files
    /\ UNCHANGED <<script, remoteTotal, idField, glob, pass, cur, countResp, total, reqs,
                   pre, out>>

GatherDoneFirst(s) == Terminal(s) # {} \/ DOMAIN task[s] = {}
\* "await asyncio.gather(...)" resumes when every task has returned.
GatherDone(s) == Terminal(s) = DOMAIN task[s]

\* asyncio.gather returns once every task has returned, and with it the
\* fetch routine.
GatherReturn(s) ==
    /\ pc = "gather" /\ cur = s
    /\ GatherDone(s)
    /\ pc' = "returned"
    /\ UNCHANGED <<script, remoteTotal, idField, glob, pass, cur, countResp, total, sem,
                   task, reqs, pre, files, out, cause>>

InspireStarted == pc \in {"gather", "returned"} /\ cur = "inspire"
\* "await download_inspire_parcels(session)": main goes on when the routine
\* has returned.
InspireAwaited == pc = "returned" /\ cur = "inspire"

\* main goes on from download_inspire_parcels to the count request of
\* download_rgg_parcels.
NextSource ==
    /\ InspireAwaited
    /\ pc' = "count"
    /\ cur' = "rgg"
    /\ pre' = [pre EXCEPT !["rgg"] = Existing("rgg")]
    /\ UNCHANGED <<script, remoteTotal, idField, glob, pass, countResp, total, sem, task,
                   reqs, files, out, cause>>

\* The session closes after download_rgg_parcels and main calls
\* normalize_and_merge.
FetchDone ==
    /\ pc = "returned" /\ cur = "rgg"
    /\ pc' = "merge"
    /\ UNCHANGED <<script, remoteTotal, idField, glob, pass, cur, countResp, total, sem,
                   task, reqs, pre, files, out, cause>>

\* ------------------------------------------------------ normalize_and_merge
\* output_subdir / f"{batch_num:04d}.geojson"
Path(s, b) == <<s, FileName(b)>>

\* sorted(glob("*.geojson")): the contents of the existing artifacts of a
\* source in the order of their file names, from the k-th on.
SortedFiles(s, k) ==
    LET order == NameOrder(Existing(s))
    IN [i \in 1..(Len(order) - (k - 1)) |-> files[s][order[i + (k - 1)]]]

\* sorted() of a directory listing, on its own.
SortedGlob ==
    /\ glob.dir # {} /\ glob.sorted = <<>>
    /\ glob' = [glob EXCEPT !.sorted = NameOrder(glob.dir)]
    /\ UNCHANGED <<script, remoteTotal, idField, pass, pc, cur, countResp,
                   total, sem, task, reqs, pre, files, out, cause>>

\* gpd.read_file of every artifact: a truncated file is not GeoJSON.
ReadFails(fs) == \E i \in DOMAIN fs : fs[i] = Truncated

\* pd.concat raises ValueError("No objects to concatenate") on an empty list.
ConcatFails(gdfs) == gdfs = <<>>

LoadFails(s) ==
    LET fs == SortedFiles(s, 1) IN ReadFails(fs) \/ ConcatFails(fs)

\* The identifier property of record rec of a source: a value, null, or no
\* such key.  A source carries the key on all of its records or on none.
IdProp(s, rec) ==
    IF idField[s] = "absent" THEN "nokey"
    ELSE IF idField[s] = "nulls" /\ rec % 2 = 1 THEN "null"
    ELSE "value"

\* The identifier as the service gives it: 'PT.<n>' for INSPIRE, the number
\* objectid for RGG.
NativeId(s, rec) ==
    IF s = "inspire" THEN <<80, 84, 46>> \o Digits(rec) ELSE Digits(rec)

\* frame.get(<id field>, frame.index.astype(str)): the column of the
\* concatenated frame when some feature carries the key, else the index.
IdColumn(s, fs) ==
    IF \E i \in DOMAIN fs : fs[i].n > 0 /\ IdProp(s, fs[i].offset) # "nokey"
    THEN "field" ELSE "index"

RECURSIVE RowsBefore(_, _)
\* Rows of the concatenated frame in front of its i-th artifact
\* (ignore_index=True numbers the rows 0, 1, 2, ...).
RowsBefore(fs, i) ==
    IF i <= 1 THEN 0 ELSE RowsBefore(fs, i - 1) + fs[i - 1].n

\* The normalized frame of a source, one run of rows per artifact: the rows
\* of the artifact in its order, the index of the first of them and the
\* column the id is taken from.
Tagged(s, fs) ==
    [i \in DOMAIN fs |->
        [source |-> s, page |-> fs[i], start |-> RowsBefore(fs, i),
         id |-> IdColumn(s, fs)]]

\* The canonical id of row k (from 0) of a run.  A null in the INSPIRE column
\* stays null; astype(str) turns a null of the RGG column into 'nan'.
CanonicalId(run, k) ==
    IF run.id = "index"
    THEN [null |-> FALSE, text |-> Digits(run.start + k)]
    ELSE IF IdProp(run.source, run.page.offset + k) = "value"
    THEN [null |-> FALSE, text |-> NativeId(run.source, run.page.offset + k)]
    ELSE IF run.source = "rgg"
    THEN [null |-> FALSE, text |-> <<110, 97, 110>>]
    ELSE [null |-> TRUE, text |-> <<>>]

CombineSwapped(a, b) == b \o a
\* pd.concat([inspire_norm, rgg_norm], ignore_index=True)
Combine(a, b) == a \o b

\* main after the load and concatenation: an exception leaves main.
AfterMerge(failed) == IF failed THEN "raised" ELSE "write"

AfterWriteAlwaysOn(failed) == "cleanup"
\* main after to_file: an exception leaves main before the cleanup.
AfterWrite(failed) == IF failed THEN "raised" ELSE "cleanup"

\* normalize_and_merge up to to_file: load INSPIRE, load RGG, normalize,
\* concatenate; to_file then opens OUTPUT_FILE for writing, which replaces
\* what was there.
Merge ==
    /\ pc = "merge"
    /\ glob.dir = {}
    /\ LET failed == LoadFails("inspire") \/ LoadFails("rgg")
       IN /\ pc' = AfterMerge(failed)
          /\ IF failed
             THEN /\ cause' = "merge"
                  /\ UNCHANGED out
             ELSE /\ out' = [written |-> FALSE, partial |-> TRUE,
                              features |->
                                Combine(Tagged("inspire", SortedFiles("inspire", 1)),
                                        Tagged("rgg", SortedFiles("rgg", 1)))]
                  /\ UNCHANGED cause
    /\ UNCHANGED <<script, remoteTotal, idField, glob, pass, cur, countResp, total, sem,
                   task, reqs, pre, files>>

\* to_file writes the collection into the open OUTPUT_FILE: to the end, or
\* it fails part-way and leaves what it wrote.
Write ==
    /\ pc = "write"
    /\ \E r \in {"written", "write_error"} :
         /\ pc' = AfterWrite(r = "write_error")
         /\ IF r = "written"
            THEN /\ out' = [out EXCEPT !.written = TRUE, !.partial = FALSE]
                 /\ UNCHANGED cause
            ELSE /\ cause' = "write"
                 /\ UNCHANGED out
    /\ UNCHANGED <<script, remoteTotal, idField, glob, pass, cur, countResp,
                   total, sem, task, reqs, pre, files>>

\* shutil.rmtree(TEMP_DIR)
Cleanup ==
    /\ pc = "cleanup"
    /\ pc' = "done"
    /\ files' = [s \in SourceSet |-> [b \in DOMAIN files[s] |-> NoFile]]
    /\ UNCHANGED <<script, remoteTotal, idField, glob, pass, cur, countResp, total, sem,
                   task, reqs, pre, out, cause>>

\* ------------------------------------------------------ interrupted passes
Running == {"start", "count", "gather", "returned", "merge", "write",
            "cleanup"}

\* The process is interrupted (killed): what is on disk stays as it is.
Kill ==
    /\ pc \in Running
    /\ pc' = "killed"
    /\ UNCHANGED <<script, remoteTotal, idField, glob, pass, cur, countResp, total, sem,
                   task, reqs, pre, files, out, cause>>

\* main is run again over the same artifact directory.
Restart ==
    /\ pc \in {"killed", "raised"}
    /\ pass < MaxPasses
    /\ pass' = pass + 1
    /\ pc' = "start"
    /\ cur' = "inspire"
    /\ countResp' = [s \in SourceSet |-> "none"]
    /\ total' = [s \in SourceSet |-> 0]
    /\ sem' = [s \in SourceSet |-> MAX_CONCURRENT]
    /\ task' = [s \in SourceSet |-> <<>>]
    /\ reqs' = [s \in SourceSet |-> <<>>]
    /\ pre' = [s \in SourceSet |-> {}]
    /\ cause' = "none"
    /\ UNCHANGED <<script, remoteTotal, idField, glob, files, out>>

\* ------------------------------------------------------------ specifications
Fetch ==
    \/ MainStart
    \/ \E s \in SourceSet : CountResponse(s)
    \/ \E s \in SourceSet : \E b \in DOMAIN task[s] : StartBatch(s, b)
    \/ \E s \in SourceSet : GatherReturn(s)
    \/ NextSource

Batches ==
    \/ \E s \in SourceSet : \E b \in DOMAIN task[s] : Response(s, b)
    \/ \E s \in SourceSet : \E b \in DOMAIN task[s] : Body(s, b)
    \/ \E s \in SourceSet : \E b \in DOMAIN task[s] : Dump(s, b)

Finish ==
    \/ FetchDone
    \/ Merge
    \/ Write
    \/ Cleanup

Next == Fetch \/ Batches \/ Finish \/ Kill \/ Restart
NextConc == Fetch \/ Batches
NextPlan == Fetch

NextNames == SortedGlob
NextMerge == Fetch \/ Batches \/ Finish

Spec == Init /\ [][Next]_vars
SpecNames == InitNames /\ [][NextNames]_vars
SpecMerge == InitMerge /\ [][NextMerge]_vars

\* The event loop runs a task that can run, and every request that was
\* issued ends: with a response, an exception or its timeout.
SpecLive ==
    InitLive /\ [][NextConc]_vars /\ WF_vars(Fetch) /\ WF_vars(Batches)
SpecConc == InitConc /\ [][NextConc]_vars
SpecPlan == InitPlan /\ [][NextPlan]_vars

\* ------------------------------------------------------------------ claims
NoReqs(s) == \A b \in DOMAIN reqs[s] : reqs[s][b] = <<>>
Other(s) == IF s = "inspire" THEN "rgg" ELSE "inspire"

\* C1: while a fetch routine drains its batches, the number of tasks that
\* have issued their page request and not yet returned never exceeds
\* MAX_CONCURRENT.
C1_BoundedInFlight ==
    \A s \in SourceSet : Cardinality(Holding(s)) <= MAX_CONCURRENT

\* C1 witness: MAX_CONCURRENT requests are in flight while a further batch
\* waits for the semaphore.
C1_Witness ==
    \E s \in SourceSet :
        /\ Cardinality(InFlight(s)) = MAX_CONCURRENT
        /\ \E b \in DOMAIN task[s] : task[s][b] = "pending"

\* C2: in the packaged copy a batch whose artifact existed when the fetch
\* was invoked never gets a page request, and its task can only end as True.
C2_NoRequestForExisting ==
    script = "pkg" =>
        \A s \in SourceSet : \A b \in DOMAIN task[s] :
            b \in pre[s] =>
                /\ reqs[s][b] = <<>>
                /\ task[s][b] \in {"pending", "true"}

\* C2 witness: a resumed pass has skipped a batch whose artifact was there.
C2_Witness ==
    /\ script = "pkg"
    /\ pass > 1
    /\ \E s \in SourceSet : \E b \in DOMAIN task[s] :
          b \in pre[s] /\ task[s][b] = "true"

\* The artifacts of a source after one uninterrupted pass in which every
\* request succeeds.
OnePass(s) ==
    [b \in 1..NumBatches(remoteTotal[s], batch_size(s)) |->
        Page(remoteTotal[s], BatchParams(s, b, remoteTotal[s]))]

\* C3: when a fetch returns from a pass in which the count request and every
\* batch succeeded, the artifacts of the source are those of one
\* uninterrupted pass, whatever the earlier passes did.
C3_ResumeSameArtifacts ==
    \A s \in SourceSet :
        ( /\ pc = "returned" /\ cur = s
          /\ countResp[s] = "ok"
          /\ \A b \in DOMAIN task[s] : task[s][b] = "true" )
        => files[s] = OnePass(s)

\* C4: a task that returned False has left no artifact unless one existed
\* when the fetch was invoked, and a task that returned True has its
\* artifact (until the cleanup of main).
C4_FailedLeavesNoArtifact ==
    pc # "done" =>
        \A s \in SourceSet : \A b \in DOMAIN task[s] :
            /\ task[s][b] = "false" => (files[s][b] = NoFile \/ b \in pre[s])
            /\ task[s][b] = "true" => files[s][b] # NoFile

\* C5: no failure of a batch ends the fetch routine with an exception; a
\* batch that failed has given its semaphore slot back, so the slots in use
\* are exactly those of the batches still under way; and when the routine
\* returns every batch is terminal, a failed one through its own request.
C5_FailureIsolated ==
    /\ cause # "batch"
    /\ \A s \in SourceSet :
          (pc = "gather" /\ cur = s) =>
              sem[s] = MAX_CONCURRENT - Cardinality(Holding(s))
    /\ \A s \in SourceSet :
          (pc = "returned" /\ cur = s) =>
              /\ Terminal(s) = DOMAIN task[s]
              /\ \A b \in DOMAIN task[s] :
                    task[s][b] = "false" => Len(reqs[s][b]) = 1

\* C5 witness: a fetch returned with one batch failed and another batch
\* fetched and persisted.
C5_Witness ==
    /\ pc = "returned"
    /\ \E b, c \in DOMAIN task[cur] :
          /\ task[cur][b] = "false"
          /\ task[cur][c] = "true"
          /\ reqs[cur][c] # <<>>

\* C6: in both copies, an artifact that exists is left as it is by every
\* step except the cleanup of main and the write of the task that is
\* creating it.
C6_NeverRewritten ==
    [][\A s \in SourceSet : \A b \in DOMAIN files[s] :
          ( /\ files[s][b] # NoFile
            /\ pc # "cleanup"
            /\ ~(b \in DOMAIN task[s] /\ task[s][b] = "writing"
                  /\ b \notin pre[s]) )
          => files'[s][b] = files[s][b]]_vars

\* C7 as claimed: a malformed count response or one without the count field
\* ends the fetch of that source with an exception and no page request.
C7_CountErrorFatal ==
    \A s \in SourceSet :
        countResp[s] \in {"nocount", "malformed"} =>
            /\ pc = "raised" /\ cause = "count" /\ cur = s
            /\ NoReqs(s)

\* C7 amended: a count response that cannot be parsed (or a count request
\* that fails) ends the fetch with an exception and no page request; one
\* that lacks the count field gives total = 0, no batch task and no page
\* request, and the fetch does not raise.
C7_MissingCountIsZero ==
    \A s \in SourceSet :
        /\ countResp[s] \in {"malformed", "error"} =>
              /\ pc = "raised" /\ cause = "count" /\ cur = s
              /\ NoReqs(s)
        /\ countResp[s] = "nocount" =>
              /\ total[s] = 0
              /\ task[s] = <<>>
              /\ NoReqs(s)
              /\ ~(cause = "count" /\ cur = s)

\* C7 witness: a fetch returned normally after a count response without the
\* count field.
C7_Witness ==
    \E s \in SourceSet :
        countResp[s] = "nocount" /\ pc = "returned" /\ cur = s

\* C8: when the count discovery of INSPIRE raises, the run still fetches
\* RGG: no run ends with the INSPIRE count failed and RGG never requested.
C8_SourceFailureIsolated ==
    ( /\ pc \in {"raised", "done"}
      /\ countResp["inspire"] \in {"malformed", "error"} )
    => countResp["rgg"] # "none"

Readable(s) == \A b \in DOMAIN files[s] : files[s][b] # Truncated

\* C9: a merge over a source directory with zero artifacts (the other source
\* having artifacts, all readable) completes and writes exactly the
\* features of the other source.
C9_EmptySourceNotError ==
    \A s \in SourceSet :
        ( /\ Existing(s) = {}
          /\ Existing(Other(s)) # {} /\ Readable(Other(s))
          /\ (pc = "cleanup" \/ (pc = "raised" /\ cause = "merge")) )
        => /\ pc = "cleanup"
           /\ out.written
           /\ out.features = Tagged(Other(s), SortedFiles(Other(s), 1))

\* C10: the fetch creates ceil(total / batch_size) tasks numbered
\* 1..num_batches; task b requests offset (b-1)*batch_size and count
\* batch_size, once; consecutive ranges are adjacent, the first starts at 0
\* and the last reaches total, so the ranges are disjoint and cover
\* 0..total-1.
C10_BatchPlan ==
    \A s \in SourceSet :
        countResp[s] = "ok" =>
            LET bs == batch_size(s)
                n == Cardinality(DOMAIN task[s])
            IN /\ DOMAIN task[s] = 1..n
               /\ n * bs >= total[s]
               /\ n = 0 \/ (n - 1) * bs < total[s]
               /\ \A b \in DOMAIN task[s] :
                     /\ Len(reqs[s][b]) <= 1
                     /\ task[s][b] # "pending" => Len(reqs[s][b]) = 1
                     /\ reqs[s][b] # <<>> =>
                           /\ reqs[s][b][1].offset = (b - 1) * bs
                           /\ reqs[s][b][1].count = bs
                           /\ b = 1 => reqs[s][b][1].offset = 0
                           /\ (b > 1 /\ reqs[s][b - 1] # <<>>) =>
                                 reqs[s][b][1].offset
                                   = reqs[s][b - 1][1].offset
                                       + reqs[s][b - 1][1].count
                           /\ b = n =>
                                 reqs[s][b][1].offset + reqs[s][b][1].count
                                   >= total[s]

\* C10 witness: total 125000 at batch size 50000 gave three tasks and the
\* third requested offset 100000, count 50000.
C10_Witness ==
    /\ total["inspire"] = 125000
    /\ DOMAIN task["inspire"] = 1..3
    /\ reqs["inspire"][3] = <<[offset |-> 100000, count |-> 50000]>>


\* C11: of two batch numbers i < j the artifact of i sorts before the
\* artifact of j, so sorted(glob) lists artifacts by ascending batch number.
C11_NameOrderIsBatchOrder ==
    \A i, j \in glob.dir :
        (i < j /\ glob.sorted # <<>>) =>
            /\ LexLess(FileName(i), FileName(j))
            /\ \E x, y \in DOMAIN glob.sorted :
                  x < y /\ glob.sorted[x] = i /\ glob.sorted[y] = j

RECURSIVE AllRows(_)
\* The features of a sequence of runs, one by one: source and record number.
AllRows(f) ==
    IF f = <<>> THEN <<>>
    ELSE [k \in 1..f[1].page.n |->
             [source |-> f[1].source, rec |-> f[1].page.offset + (k - 1)]]
         \o AllRows(Tail(f))

RunsOf(s) == {x \in DOMAIN out.features : out.features[x].source = s}

\* C12: the written output holds all INSPIRE features and then all RGG
\* features, within a source by ascending batch, each existing artifact
\* exactly once and whole, and the rows of a source numbered in that order;
\* for sources of a few records it is the list of their records in order.
C12_MergeIsConcatenation ==
    (pc = "cleanup" /\ out.written) =>
        LET f == out.features
        IN /\ \A x, y \in DOMAIN f :
                 x < y =>
                     /\ f[x].source = "inspire" \/ f[y].source = "rgg"
                     /\ f[x].source = f[y].source =>
                           /\ f[x].page.offset < f[y].page.offset
                           /\ f[x].start + f[x].page.n <= f[y].start
           /\ \A s \in SourceSet :
                 /\ \A b \in Existing(s) :
                       Cardinality({x \in RunsOf(s) : f[x].page = files[s][b]}) = 1
                 /\ Cardinality(RunsOf(s)) = Cardinality(Existing(s))
           /\ (\A s \in SourceSet : remoteTotal[s] <= MaxMergeRows) =>
                 AllRows(f) =
                   [k \in 1..(remoteTotal["inspire"] + remoteTotal["rgg"]) |->
                      IF k <= remoteTotal["inspire"]
                      THEN [source |-> "inspire", rec |-> k - 1]
                      ELSE [source |-> "rgg",
                            rec |-> k - 1 - remoteTotal["inspire"]]]

\* C12 witness: INSPIRE with 2 features and RGG with 3 gave
\* [A0, A1, B0, B1, B2].
C12_Witness ==
    /\ pc = "cleanup" /\ out.written
    /\ remoteTotal = [inspire |-> 2, rgg |-> 3]
    /\ AllRows(out.features) =
         << [source |-> "inspire", rec |-> 0], [source |-> "inspire", rec |-> 1],
            [source |-> "rgg", rec |-> 0], [source |-> "rgg", rec |-> 1],
            [source |-> "rgg", rec |-> 2] >>

MergeAttempted ==
    pc \in {"write", "cleanup"} \/ (pc = "raised" /\ cause = "merge")

\* C13: when some but not all batches of a source failed (every source
\* having a batch that succeeded), the merge completes and the output holds
\* exactly the pages of the batches that succeeded.
C13_PartialFailureMerges ==
    ( /\ MergeAttempted
      /\ \E s \in SourceSet : \E b, c \in DOMAIN task[s] :
            task[s][b] = "false" /\ task[s][c] = "true"
      /\ \A s \in SourceSet : \E c \in DOMAIN task[s] : task[s][c] = "true" )
    => /\ pc # "raised"
       /\ \A s \in SourceSet :
             {out.features[x].page : x \in RunsOf(s)}
               = {OnePass(s)[b] : b \in {c \in DOMAIN task[s] : task[s][c] = "true"}}

\* C14: from the moment the merge starts, every fetch has received its count
\* response and every batch task of every source has returned: none holds
\* the semaphore, has a request in flight or a file open.
C14_MergeAfterFetch ==
    (pc \in {"merge", "write", "cleanup", "done"}
       \/ (pc = "raised" /\ cause \in {"merge", "write"}))
    => \A s \in SourceSet :
           /\ countResp[s] # "none"
           /\ Terminal(s) = DOMAIN task[s]
           /\ Holding(s) = {}
           /\ sem[s] = MAX_CONCURRENT

\* C14 witness: the merge is about to read artifacts of a run in which each
\* source fetched a batch.
C14_Witness ==
    /\ pc = "merge"
    /\ \A s \in SourceSet : \E b \in DOMAIN task[s] : reqs[s][b] # <<>>

\* C15: a fetch that has started its batch tasks eventually returns, and
\* at its return every batch has been skipped or attempted and the semaphore
\* is free: no task is pending, under way or waiting.
C15_FetchReturns ==
    /\ (pc = "gather") ~> (pc = "returned")
    /\ [](pc = "returned" =>
             /\ Terminal(cur) = DOMAIN task[cur]
             /\ sem[cur] = MAX_CONCURRENT)

\* C15 witness: a fetch of more batches than MAX_CONCURRENT has returned,
\* some of them failed.
C15_Witness ==
    /\ pc = "returned"
    /\ Cardinality(DOMAIN task[cur]) > MAX_CONCURRENT
    /\ \E b \in DOMAIN task[cur] : task[cur][b] = "false"

\* C16: every feature of the written output whose identifier is a value
\* keeps it as its id, and every feature without the identifier field or
\* with a null identifier has the string of its position in its source
\* collection as its id.
C16_IdFallsBackToIndex ==
    (pc = "cleanup" /\ out.written) =>
        \A x \in DOMAIN out.features :
            LET run == out.features[x]
            IN \A k \in 0..(run.page.n - 1) :
                   CanonicalId(run, k) =
                       IF IdProp(run.source, run.page.offset + k) = "value"
                       THEN [null |-> FALSE,
                             text |-> NativeId(run.source, run.page.offset + k)]
                       ELSE [null |-> FALSE, text |-> Digits(run.start + k)]

\* C17: when to_file has failed, OUTPUT_FILE is not a partly written file.
C17_WriteIsAtomic ==
    (pc = "raised" /\ cause = "write") => ~out.partial

\* C18: the cleanup stands only behind a complete output write of a run in
\* which nothing raised, and no step but that cleanup removes an artifact:
\* a run that raised keeps every artifact it has.
C18_CleanupAfterMerge ==
    /\ [](pc \in {"cleanup", "done"} =>
             (cause = "none" /\ out.written /\ ~out.partial))
    /\ [][ ( \/ pc' = "done"
             \/ \E s \in SourceSet : \E b \in DOMAIN files[s] :
                   files[s][b] # NoFile /\ files'[s][b] = NoFile )
           => ( /\ pc = "cleanup" /\ cause = "none"
                /\ out.written /\ ~out.partial ) ]_vars

\* C18 witness: the output write raised and the artifacts are still there.
C18_Witness ==
    /\ pc = "raised" /\ cause = "write"
    /\ \A s \in SourceSet : Existing(s) # {}

Fetching == {"requesting", "reading", "writing"}

\* C19: within an invocation a task goes pending -> true without a request
\* (skipped), or pending -> fetching -> true or false, and a terminal task
\* stays as it is; a task has at most one page request, exactly one once it
\* is fetching or has failed; when the fetch returns, every batch without an
\* artifact at invocation has had exactly one request and, in the packaged
\* copy, no batch with an artifact has had any.
C19_BatchStateMachine ==
    /\ [](\A s \in SourceSet : \A b \in DOMAIN task[s] :
             /\ Len(reqs[s][b]) <= 1
             /\ task[s][b] \in Fetching \cup {"false"} => Len(reqs[s][b]) = 1
             /\ task[s][b] = "pending" => Len(reqs[s][b]) = 0
             /\ (pc = "returned" /\ cur = s) =>
                   /\ b \notin pre[s] => Len(reqs[s][b]) = 1
                   /\ (script = "pkg" /\ b \in pre[s]) => Len(reqs[s][b]) = 0)
    /\ [][\A s \in SourceSet : \A b \in DOMAIN task[s] :
             (pass' = pass /\ task'[s][b] # task[s][b]) =>
                 \/ /\ task[s][b] = "pending"
                    /\ task'[s][b] = "true"
                    /\ reqs'[s][b] = <<>>
                 \/ /\ task[s][b] = "pending"
                    /\ task'[s][b] = "requesting"
                 \/ /\ task[s][b] \in Fetching
                    /\ task'[s][b] \in Fetching \cup {"true", "false"}
                    /\ reqs'[s][b] = reqs[s][b]]_vars

\* C19 witness: a resumed fetch of the packaged copy returned having skipped
\* a batch whose artifact was there and requested one whose artifact was not.
C19_Witness ==
    /\ script = "pkg" /\ pass > 1 /\ pc = "returned"
    /\ \E b, c \in DOMAIN task[cur] :
          /\ b \in pre[cur] /\ reqs[cur][b] = <<>>
          /\ c \notin pre[cur] /\ Len(reqs[cur][c]) = 1

TaskIds(s) == {<<s, b>> : b \in DOMAIN task[s]}

\* C20: once main is at the RGG source every INSPIRE task has returned; the
\* requests in flight over the whole run (the count request or the batch
\* requests of both sources) never exceed MAX_CONCURRENT; and two tasks under
\* of the run never have the same artifact path.
C20_SourcesInTurn ==
    /\ (cur = "rgg" \/ countResp["rgg"] # "none" \/ Holding("rgg") # {}) =>
          /\ countResp["inspire"] # "none"
          /\ Terminal("inspire") = DOMAIN task["inspire"]
    /\ Cardinality(Holding("inspire")) + Cardinality(Holding("rgg"))
          + (IF pc = "count" THEN 1 ELSE 0) <= MAX_CONCURRENT
    /\ \A x, y \in TaskIds("inspire") \cup TaskIds("rgg") :
          x # y => Path(x[1], x[2]) # Path(y[1], y[2])

\* C20 witness: the RGG count request is in flight after an INSPIRE fetch of
\* more batches than MAX_CONCURRENT.
C20_Witness ==
    /\ pc = "count" /\ cur = "rgg"
    /\ Cardinality(DOMAIN task["inspire"]) > MAX_CONCURRENT
    /\ \E b \in DOMAIN task["inspire"] : reqs["inspire"][b] # <<>>

====
